---- MODULE Spec2Model ----
(***************************************************************************)
(* Model of mpnum/factory.py: the factory functions that build random      *)
(* vectors, operators, density matrices and matrix product arrays.         *)
(*                                                                         *)
(* Arrays are numpy arrays in C order: a shape and the flat data.  Entries *)
(* are complex numbers <<re, im>> over the integers.  An in-place division *)
(* by a scalar is kept exactly: the array carries the divisor `div` (and   *)
(* `root` when the divisor is the square root of `div`), so the value of   *)
(* entry k is data[k] / div, or data[k] / sqrt(div).                       *)
(*                                                                         *)
(* A random source (np.random.RandomState, or the module np.random) is a   *)
(* deterministic generator: a state, the sample read in a state, and the   *)
(* state after a number of samples.  A standard normal sample is a         *)
(* continuous variate, so a sample is never exactly zero.                  *)
(***************************************************************************)
EXTENDS Integers, Sequences, FiniteSets, TLC

VARIABLES src, last, thr

vars == <<src, last, thr>>

-----------------------------------------------------------------------------
(* Bounds of the model *)

MaxSites == 3
MaxLdim == 2
MaxBdim == 2
SourceStates == 7
MaxMatDim == 4
MaxEntries == 64
MaxConcSites == 2
MaxConcSeed == 0

-----------------------------------------------------------------------------
(* Complex integers *)

CAdd(a, b) == <<a[1] + b[1], a[2] + b[2]>>
CMul(a, b) == <<a[1] * b[1] - a[2] * b[2], a[1] * b[2] + a[2] * b[1]>>
CConj(a) == <<a[1], -a[2]>>

\* the sum of s[lo..hi], by halves
RECURSIVE SumRange(_, _, _)
SumRange(s, lo, hi) ==
    IF lo > hi THEN <<0, 0>>
    ELSE IF lo = hi THEN s[lo]
    ELSE CAdd(SumRange(s, lo, (lo + hi) \div 2), SumRange(s, ((lo + hi) \div 2) + 1, hi))

SumC(s) == SumRange(s, 1, Len(s))

RECURSIVE Prod(_)
Prod(shape) == IF shape = <<>> THEN 1 ELSE Head(shape) * Prod(Tail(shape))

RECURSIVE Pow(_, _)
Pow(b, e) == IF e <= 0 THEN 1 ELSE b * Pow(b, e - 1)

\* Python's  t * n  for a tuple t: n copies of t, the empty tuple for n <= 0
RECURSIVE TupleTimes(_, _)
TupleTimes(t, n) == IF n <= 0 THEN <<>> ELSE t \o TupleTimes(t, n - 1)

-----------------------------------------------------------------------------
(* numpy arrays *)

NoArray == [shape |-> <<-1>>, data |-> <<>>, div |-> <<1, 0>>, root |-> FALSE]

MkArray(shape, data) ==
    [shape |-> shape, data |-> data, div |-> <<1, 0>>, root |-> FALSE]

\* a variant of HasNegative that also refuses a dimension of zero
HasNonPositive(shape) == \E i \in 1..Len(shape) : shape[i] <= 0

HasNegative(shape) == \E i \in 1..Len(shape) : shape[i] < 0

\* np.zeros(shape)
np_zeros(shape) ==
    IF HasNegative(shape)
    THEN [err |-> "ValueError", val |-> NoArray]
    ELSE [err |-> "", val |-> MkArray(shape, [k \in 1..Prod(shape) |-> <<0, 0>>])]

\* a variant of np_eye that fills the whole matrix with ones
np_eye_ones(n) ==
    IF n < 0
    THEN [err |-> "ValueError", val |-> NoArray]
    ELSE [err |-> "", val |-> MkArray(<<n, n>>, [k \in 1..(n * n) |-> <<1, 0>>])]

\* np.eye(n)
np_eye(n) ==
    IF n < 0
    THEN [err |-> "ValueError", val |-> NoArray]
    ELSE [err |-> "",
          val |-> MkArray(<<n, n>>,
                     [k \in 1..(n * n) |->
                        IF (k - 1) \div n = (k - 1) % n THEN <<1, 0>> ELSE <<0, 0>>])]

\* entry (i, j) of a matrix, 1-based
At(A, i, j) == A.data[(i - 1) * A.shape[2] + j]

\* A.T of a matrix
np_T(A) ==
    [A EXCEPT !.shape = <<A.shape[2], A.shape[1]>>,
              !.data = [k \in 1..Len(A.data) |->
                          At(A, ((k - 1) % A.shape[1]) + 1, ((k - 1) \div A.shape[1]) + 1)]]

\* np.conj(A)
np_conj(A) == [A EXCEPT !.data = [k \in 1..Len(A.data) |-> CConj(A.data[k])]]

\* A.dot(B) of two matrices
np_dot(A, B) ==
    LET r == A.shape[1]
        m == A.shape[2]
        c == B.shape[2]
    IN  MkArray(<<r, c>>,
           [k \in 1..(r * c) |->
              LET i == ((k - 1) \div c) + 1
                  j == ((k - 1) % c) + 1
              IN  SumC([x \in 1..m |-> CMul(At(A, i, x), At(B, x, j))])])

\* np.trace(A) of a matrix
np_trace(A) ==
    LET n == IF A.shape[1] < A.shape[2] THEN A.shape[1] ELSE A.shape[2]
    IN  SumC([i \in 1..n |-> At(A, i, i)])

\* np.vdot(a, b): sum of conj(a[k]) * b[k] over the flattened arrays
np_vdot(a, b) == SumC([k \in 1..Len(a.data) |-> CMul(CConj(a.data[k]), b.data[k])])

\* A.reshape(newshape): the data stay in place; at most one dimension may be -1
np_reshape(A, newshape) ==
    LET unknown == {i \in 1..Len(newshape) : newshape[i] = -1}
        known == [i \in 1..Len(newshape) |-> IF newshape[i] = -1 THEN 1 ELSE newshape[i]]
        size == Len(A.data)
    IN  IF Cardinality(unknown) > 1 \/ \E i \in 1..Len(newshape) : newshape[i] < -1
        THEN [err |-> "ValueError", val |-> NoArray]
        ELSE IF unknown = {}
        THEN IF Prod(newshape) = size
             THEN [err |-> "", val |-> [A EXCEPT !.shape = newshape]]
             ELSE [err |-> "ValueError", val |-> NoArray]
        ELSE IF Prod(known) # 0 /\ size % Prod(known) = 0
             THEN [err |-> "",
                   val |-> [A EXCEPT !.shape =
                              [i \in 1..Len(newshape) |->
                                 IF newshape[i] = -1 THEN size \div Prod(known)
                                 ELSE newshape[i]]]]
             ELSE [err |-> "ValueError", val |-> NoArray]

-----------------------------------------------------------------------------
(* Random sources *)

SourceIds == {"np.random", "r1", "r2"}

SampleTable == <<1, -2, 3, -1, 2, -3, 1, 2>>

\* the standard normal sample the source yields in state s
Sample(s) == SampleTable[(s % Len(SampleTable)) + 1]

\* the state after n samples: the source counts the samples it has handed out
StepN(s, n) == (s + n) % SourceStates

\* the next n samples of a source in state s
Draw(s, n) == [k \in 1..n |-> Sample(StepN(s, k - 1))]

\* randstate.randn(*shape) on source `id` of world w
np_randn(w, id, shape) ==
    IF HasNegative(shape)
    THEN [err |-> "ValueError", val |-> NoArray, w |-> w]
    ELSE LET n == Prod(shape)
             d == Draw(w.src[id], n)
         IN  [err |-> "",
              val |-> MkArray(shape, [k \in 1..n |-> <<d[k], 0>>]),
              w |-> [src |-> [w.src EXCEPT ![id] = StepN(w.src[id], n)],
                     log |-> Append(w.log, [src |-> id, shape |-> shape]),
                     calls |-> w.calls, ctor |-> w.ctor, asked |-> w.asked]]

\* a variant of source_of that ignores the injected source
source_of_default(randstate) == "np.random"

\* randstate = randstate if randstate is not None else np.random
source_of(randstate) == IF randstate # "None" THEN randstate ELSE "np.random"

\* a + 1.j * b for two real arrays of one shape
zcombine(shape, a, b) ==
    MkArray(shape, [k \in 1..Len(a.data) |-> CAdd(a.data[k], CMul(<<0, 1>>, b.data[k]))])

\* a variant of _zrandn that draws the imaginary part first
_zrandn_imag_first(shape, randstate, w) ==
    LET id == source_of(randstate)
        b == np_randn([w EXCEPT !.asked = Append(@, shape)], id, shape)
        a == np_randn(b.w, id, shape)
    IN  IF b.err # "" THEN b
        ELSE IF a.err # "" THEN a
        ELSE [err |-> "", val |-> zcombine(shape, a.val, b.val), w |-> a.w]

\* _zrandn(shape, randstate): real part first, then imaginary part
_zrandn(shape, randstate, w) ==
    LET id == source_of(randstate)
        a == np_randn([w EXCEPT !.asked = Append(@, shape)], id, shape)
        b == np_randn(a.w, id, shape)
    IN  IF a.err # "" THEN a
        ELSE IF b.err # "" THEN b
        ELSE [err |-> "", val |-> zcombine(shape, a.val, b.val), w |-> b.w]

-----------------------------------------------------------------------------
(* Dense factories *)

\* a variant of random_vec that divides by the squared norm
random_vec_no_sqrt(sites, ldim, randstate, w) ==
    LET shape == TupleTimes(<<ldim>>, sites)
        z == _zrandn(shape, randstate, w)
        psi == z.val
    IN  IF z.err # "" THEN z
        ELSE [z EXCEPT !.val = [psi EXCEPT !.div = np_vdot(psi, psi)]]

\* psi /= np.sqrt(np.vdot(psi, psi))
normalized(psi) == [psi EXCEPT !.div = np_vdot(psi, psi), !.root = TRUE]

\* random_vec(sites, ldim, randstate)
random_vec(sites, ldim, randstate, w) ==
    LET shape == TupleTimes(<<ldim>>, sites)
        z == _zrandn(shape, randstate, w)
    IN  IF z.err # "" THEN z
        ELSE [z EXCEPT !.val = normalized(z.val)]

\* a variant of random_op with one leg per site
random_op_one_leg(sites, ldim, randstate, w) ==
    _zrandn(TupleTimes(<<ldim>>, sites), randstate, w)

\* random_op(sites, ldim, randstate)
random_op(sites, ldim, randstate, w) ==
    LET shape == TupleTimes(<<ldim, ldim>>, sites)
    IN  _zrandn(shape, randstate, w)

\* a variant of random_state that forgets the complex conjugate
random_state_no_conj(sites, ldim, randstate, w) ==
    LET shape == <<Pow(ldim, sites), Pow(ldim, sites)>>
        z == _zrandn(shape, randstate, w)
        mat == z.val
        rho == np_dot(np_T(mat), mat)
        scaled == [rho EXCEPT !.div = np_trace(rho)]
        res == np_reshape(scaled, TupleTimes(TupleTimes(<<ldim>>, 2), sites))
    IN  IF z.err # "" THEN z
        ELSE [err |-> res.err, val |-> res.val, w |-> z.w]

\* rho = np.conj(mat.T).dot(mat); rho /= np.trace(rho); rho.reshape(...)
density(mat, sites, ldim) ==
    LET rho == np_dot(np_conj(np_T(mat)), mat)
        scaled == [rho EXCEPT !.div = np_trace(rho)]
    IN  np_reshape(scaled, TupleTimes(TupleTimes(<<ldim>>, 2), sites))

\* random_state(sites, ldim, randstate)
random_state(sites, ldim, randstate, w) ==
    LET shape == <<Pow(ldim, sites), Pow(ldim, sites)>>
        z == _zrandn(shape, randstate, w)
        res == density(z.val, sites, ldim)
    IN  IF z.err # "" THEN z
        ELSE [err |-> res.err, val |-> res.val, w |-> z.w]

-----------------------------------------------------------------------------
(* Matrix product arrays *)

\* a local dimension argument: a scalar, or an iterable of local dimensions
LdimScalar(d) == [iter |-> FALSE, n |-> d, t |-> <<>>]
LdimTuple(t) == [iter |-> TRUE, n |-> 0, t |-> t]

NoMPA == [ltens |-> <<>>]

\* mp.MPArray(ltens): the array owns the list of local tensors it is given
MPArray(ltens, w) ==
    [err |-> "",
     val |-> [ltens |-> ltens],
     w |-> [w EXCEPT !.ctor = Append(@, [via |-> "MPArray", arg |-> ltens])]]

\* mp.MPArray.from_kron(factors): every factor becomes a local tensor with
\* bond dimension 1 on both sides
from_kron(factors, w) ==
    [err |-> "",
     val |-> [ltens |-> [k \in 1..Len(factors) |->
                 [factors[k] EXCEPT !.shape = <<1>> \o @ \o <<1>>]]],
     w |-> [w EXCEPT !.ctor = Append(@, [via |-> "from_kron", arg |-> factors])]]

\* the fill functions _generate is used with
ZrandnWith(randstate) == [name |-> "_zrandn", randstate |-> randstate]
NpZeros == [name |-> "np.zeros", randstate |-> "None"]

\* func(shape)
call_func(func, shape, w) ==
    LET w1 == [w EXCEPT !.calls = Append(@, [func |-> func.name, shape |-> shape])]
        z == np_zeros(shape)
    IN  IF func.name = "_zrandn"
        THEN _zrandn(shape, func.randstate, w1)
        ELSE [err |-> z.err, val |-> z.val, w |-> w1]

\* [func(shape) for _ in range(k)]
RECURSIVE fill_list(_, _, _, _)
fill_list(k, func, shape, w) ==
    IF k <= 0 THEN [err |-> "", vals |-> <<>>, w |-> w]
    ELSE LET f == call_func(func, shape, w)
             rest == fill_list(k - 1, func, shape, f.w)
         IN  IF f.err # "" THEN [err |-> f.err, vals |-> <<>>, w |-> f.w]
             ELSE [err |-> rest.err, vals |-> <<f.val>> \o rest.vals, w |-> rest.w]

\* a variant of sites_ok that lets a single site through
sites_ok_one(sites) == sites > 0

\* the assertion that opens _generate
sites_ok(sites) == sites > 1

\* ldim = tuple(ldim) if hasattr(ldim, '__iter__') else (ldim, )
ldim_tuple(ldim) == IF ldim.iter THEN ldim.t ELSE <<ldim.n>>

\* the shapes of the first, the middle and the last local tensor
shape_l(ld, bdim) == <<1>> \o ld \o <<bdim>>
shape_m(ld, bdim) == <<bdim>> \o ld \o <<bdim>>
\* a variant of shape_r that leaves the right bond of the last tensor open
shape_r_open(ld, bdim) == <<bdim>> \o ld \o <<bdim>>

shape_r(ld, bdim) == <<bdim>> \o ld \o <<1>>

\* _generate(sites, ldim, bdim, func)
_generate(sites, ldim, bdim, func, w) ==
    LET ld == ldim_tuple(ldim)
        l == call_func(func, shape_l(ld, bdim), w)
        m == fill_list(sites - 2, func, shape_m(ld, bdim), l.w)
        r == call_func(func, shape_r(ld, bdim), m.w)
    IN  IF ~sites_ok(sites) THEN [err |-> "AssertionError", val |-> NoMPA, w |-> w]
        ELSE IF l.err # "" THEN [err |-> l.err, val |-> NoMPA, w |-> l.w]
        ELSE IF m.err # "" THEN [err |-> m.err, val |-> NoMPA, w |-> m.w]
        ELSE IF r.err # "" THEN [err |-> r.err, val |-> NoMPA, w |-> r.w]
        ELSE MPArray(<<l.val>> \o m.vals \o <<r.val>>, r.w)

\* random_mpa(sites, ldim, bdim, randstate)
random_mpa(sites, ldim, bdim, randstate, w) ==
    _generate(sites, ldim, bdim, ZrandnWith(randstate), w)

\* a variant of zero that reduces the zero array to bond dimension 1
zero_reduced(sites, ldim, bdim, w) == _generate(sites, ldim, 1, NpZeros, w)

\* zero(sites, ldim, bdim)
zero(sites, ldim, bdim, w) == _generate(sites, ldim, bdim, NpZeros, w)

\* it.repeat(x, n)
it_repeat(x, n) == [k \in 1..n |-> x]

\* the amplitudes of an MPA with two physical legs per site and bond dimension
\* 1, applied to the basis state b: out[j] is the product over the sites k of
\* entry (j[k], b[k]) of local tensor k
RECURSIVE ProdC(_)
ProdC(s) == IF s = <<>> THEN <<1, 0>> ELSE CMul(Head(s), ProdC(Tail(s)))

apply_to_basis(mpa, b) ==
    LET n == Len(mpa.ltens)
        d == mpa.ltens[1].shape[2]
    IN  [j \in [1..n -> 1..d] |->
           ProdC([k \in 1..n |-> mpa.ltens[k].data[(j[k] - 1) * d + b[k]]])]

\* eye(sites, ldim)
eye(sites, ldim, w) ==
    LET e == np_eye(ldim)
    IN  IF e.err # "" THEN [err |-> e.err, val |-> NoMPA, w |-> w]
        ELSE from_kron(it_repeat(e.val, sites), w)

-----------------------------------------------------------------------------
(* State machine: a caller invokes one factory at a time *)

NoCall ==
    [fn |-> "none", sites |-> 0, ldim |-> LdimScalar(0), bdim |-> 0,
     randstate |-> "None", pre |-> [i \in SourceIds |-> 0], err |-> "",
     val |-> NoArray, log |-> <<>>, calls |-> <<>>, ctor |-> <<>>, asked |-> <<>>]

\* the sources as they are, and nothing recorded yet
World == [src |-> src, log |-> <<>>, calls |-> <<>>, ctor |-> <<>>, asked |-> <<>>]

\* the number of entries of an array of this shape (negative dimensions aside)
Entries(shape) == Prod([i \in 1..Len(shape) |-> IF shape[i] < 0 THEN 1 ELSE shape[i]])

LdimSpecs ==
    {LdimScalar(d) : d \in -1..MaxLdim}
        \cup {LdimTuple(<<>>)}
        \cup {LdimTuple(<<a>>) : a \in 1..MaxLdim}
        \cup {LdimTuple(<<a, b>>) : a \in 1..MaxLdim, b \in 1..MaxLdim}

RandStates == {"None", "r1"}

Returned(fn, sites, ldim, bdim, randstate, r) ==
    /\ src' = r.w.src
    /\ last' = [fn |-> fn, sites |-> sites, ldim |-> ldim, bdim |-> bdim,
                randstate |-> randstate, pre |-> src, err |-> r.err, val |-> r.val,
                log |-> r.w.log, calls |-> r.w.calls, ctor |-> r.w.ctor,
                asked |-> r.w.asked]
    /\ UNCHANGED thr

Call_random_vec ==
    /\ last.fn = "none"
    /\ \E xs \in 0..MaxSites, xd \in -1..MaxLdim, xr \in RandStates :
          /\ Entries(TupleTimes(<<xd>>, xs)) <= MaxEntries
          /\ Returned("random_vec", xs, LdimScalar(xd), 0, xr,
                      random_vec(xs, xd, xr, World))

Call_random_op ==
    /\ last.fn = "none"
    /\ \E xs \in 0..MaxSites, xd \in -1..MaxLdim, xr \in RandStates :
          /\ Entries(TupleTimes(<<xd, xd>>, xs)) <= MaxEntries
          /\ Returned("random_op", xs, LdimScalar(xd), 0, xr,
                      random_op(xs, xd, xr, World))

Call_random_state ==
    /\ last.fn = "none"
    /\ \E xs \in 0..MaxSites, xd \in -1..MaxLdim, xr \in RandStates :
          /\ Pow(xd, xs) <= MaxMatDim
          /\ Returned("random_state", xs, LdimScalar(xd), 0, xr,
                      random_state(xs, xd, xr, World))

Call_random_mpa ==
    /\ last.fn = "none"
    /\ \E xs \in -1..MaxSites, xl \in LdimSpecs, xb \in -1..MaxBdim, xr \in RandStates :
          /\ Entries(shape_m(ldim_tuple(xl), xb)) <= MaxEntries
          /\ Returned("random_mpa", xs, xl, xb, xr, random_mpa(xs, xl, xb, xr, World))

Call_zero ==
    /\ last.fn = "none"
    /\ \E xs \in -1..MaxSites, xl \in LdimSpecs, xb \in -1..MaxBdim :
          /\ Entries(shape_m(ldim_tuple(xl), xb)) <= MaxEntries
          /\ Returned("zero", xs, xl, xb, "None", zero(xs, xl, xb, World))

\* eye is called with at least one site: what from_kron makes of no factor at
\* all is not decided in this file
Call_eye ==
    /\ last.fn = "none"
    /\ \E xs \in 1..MaxSites, xd \in -1..MaxLdim :
          /\ Entries(<<xd, xd>>) <= MaxEntries
          /\ Returned("eye", xs, LdimScalar(xd), 0, "None", eye(xs, xd, World))

\* the caller drops the result and is free to call again
Discard ==
    /\ last.fn # "none"
    /\ last' = NoCall
    /\ UNCHANGED <<src, thr>>

Init ==
    /\ src \in [SourceIds -> 0..(SourceStates - 1)]
    /\ src["r2"] = 0
    /\ last = NoCall
    /\ thr = <<>>

Next ==
    \/ Call_random_vec
    \/ Call_random_op
    \/ Call_random_state
    \/ Call_random_mpa
    \/ Call_zero
    \/ Call_eye
    \/ Discard

Spec == Init /\ [][Next]_vars

-----------------------------------------------------------------------------
(* Two callers at once: every randstate.randn call is one step *)

Callers == {"A", "B"}

Other(c) == IF c = "A" THEN "B" ELSE "A"

\* the calls a caller may be making: valid arguments only
Jobs ==
    {[fn |-> f, sites |-> n, ldim |-> d, bdim |-> 0] :
        f \in {"random_vec", "random_op", "random_state"},
        n \in 1..MaxConcSites, d \in 1..MaxLdim}
    \cup {[fn |-> "random_mpa", sites |-> n, ldim |-> d, bdim |-> b] :
        n \in 2..MaxConcSites, d \in 1..MaxLdim, b \in {MaxBdim}}

\* the shapes a job asks _zrandn for, in order
Requests(j) ==
    IF j.fn = "random_vec" THEN <<TupleTimes(<<j.ldim>>, j.sites)>>
    ELSE IF j.fn = "random_op" THEN <<TupleTimes(<<j.ldim, j.ldim>>, j.sites)>>
    ELSE IF j.fn = "random_state" THEN <<(<<Pow(j.ldim, j.sites), Pow(j.ldim, j.sites)>>)>>
    ELSE [k \in 1..j.sites |->
            IF k = 1 THEN shape_l(<<j.ldim>>, j.bdim)
            ELSE IF k = j.sites THEN shape_r(<<j.ldim>>, j.bdim)
            ELSE shape_m(<<j.ldim>>, j.bdim)]

JobFits(j) ==
    /\ \A k \in 1..Len(Requests(j)) : Entries(Requests(j)[k]) <= MaxEntries
    /\ j.fn = "random_state" => Pow(j.ldim, j.sites) <= MaxMatDim

\* what the job returns once _zrandn has returned zs
Finish(j, zs) ==
    IF j.fn = "random_vec" THEN normalized(zs[1])
    ELSE IF j.fn = "random_op" THEN zs[1]
    ELSE IF j.fn = "random_state" THEN density(zs[1], j.sites, j.ldim).val
    ELSE [ltens |-> zs]

\* the same job run in one piece, from the sources as they were at the start
Alone(j, randstate, src0) ==
    LET w == [src |-> src0, log |-> <<>>, calls |-> <<>>, ctor |-> <<>>, asked |-> <<>>]
    IN  IF j.fn = "random_vec" THEN random_vec(j.sites, j.ldim, randstate, w)
        ELSE IF j.fn = "random_op" THEN random_op(j.sites, j.ldim, randstate, w)
        ELSE IF j.fn = "random_state" THEN random_state(j.sites, j.ldim, randstate, w)
        ELSE random_mpa(j.sites, LdimScalar(j.ldim), j.bdim, randstate, w)

Idle(j, rs) ==
    [job |-> j, randstate |-> rs, pc |-> 0, re |-> NoArray, zs |-> <<>>,
     done |-> FALSE, out |-> NoArray]

InitConc ==
    /\ last = NoCall
    /\ \E s0 \in 0..MaxConcSeed :
          src = [i \in SourceIds |->
                   IF i = "r1" THEN s0
                   ELSE IF i = "r2" THEN (s0 + 1) % SourceStates
                   ELSE (s0 + 2) % SourceStates]
    /\ \E ja \in Jobs, jb \in Jobs, ra \in {"None", "r1"}, rb \in {"None", "r1", "r2"} :
          /\ JobFits(ja)
          /\ JobFits(jb)
          /\ thr = [src0 |-> src, mixed |-> FALSE,
                    c |-> [x \in Callers |-> IF x = "A" THEN Idle(ja, ra) ELSE Idle(jb, rb)]]

\* caller c makes its next randn call: the real part of a tensor when pc is
\* even, the imaginary part when pc is odd; `mixed` records that a caller has
\* drawn while the other was between two of its draws
ConcStep(c) ==
    LET me == thr.c[c]
        reqs == Requests(me.job)
        shape == reqs[(me.pc \div 2) + 1]
        r == np_randn(World, source_of(me.randstate), shape)
        zs == IF me.pc % 2 = 1 THEN Append(me.zs, zcombine(shape, me.re, r.val)) ELSE me.zs
        fin == me.pc + 1 = 2 * Len(reqs)
    IN  /\ thr # <<>>
        /\ ~me.done
        /\ src' = r.w.src
        /\ thr' = [thr EXCEPT
                     !.mixed = @ \/ (thr.c[Other(c)].pc > 0 /\ ~thr.c[Other(c)].done),
                     !.c[c] = [me EXCEPT
                                 !.pc = me.pc + 1,
                                 !.re = IF me.pc % 2 = 0 THEN r.val ELSE NoArray,
                                 !.zs = zs,
                                 !.done = fin,
                                 !.out = IF fin THEN Finish(me.job, zs) ELSE NoArray]]
        /\ UNCHANGED last

StepA == ConcStep("A")

StepB == ConcStep("B")

NextConc == StepA \/ StepB

SpecConc == InitConc /\ [][NextConc]_vars

-----------------------------------------------------------------------------
(* Properties *)

\* the tuple-expanded local dimension of the last call
LdOf(l) == IF l.iter THEN l.t ELSE <<l.n>>

NoneNegative(s) == \A i \in 1..Len(s) : s[i] >= 0

\* the shape the spec gives local tensor k of n
ExpShape(l, b, n, k) ==
    <<IF k = 1 THEN 1 ELSE b>> \o LdOf(l) \o <<IF k = n THEN 1 ELSE b>>

ViaGenerate == last.fn \in {"random_mpa", "zero"}

GoodMpaArgs == last.sites >= 2 /\ last.bdim >= 1 /\ NoneNegative(LdOf(last.ldim))

\* C1: for sites >= 2, bdim >= 1 and any local dimension spec, _generate hands
\* the MPArray constructor exactly `sites` local tensors of shapes
\* (1,)+ldim+(bdim,), (bdim,)+ldim+(bdim,) ..., (bdim,)+ldim+(1,): adjacent
\* bonds agree, the outer bonds are 1 and the physical legs are the same on
\* every site.
C1_GenerateShapes ==
    (ViaGenerate /\ GoodMpaArgs) =>
        /\ last.err = ""
        /\ Len(last.ctor) = 1
        /\ last.ctor[1].via = "MPArray"
        /\ LET lt == last.ctor[1].arg
               n == last.sites
           IN  /\ Len(lt) = n
               /\ \A k \in 1..n :
                     lt[k].shape = ExpShape(last.ldim, last.bdim, n, k)
               /\ \A k \in 1..(n - 1) :
                     lt[k].shape[Len(lt[k].shape)] = lt[k + 1].shape[1]
               /\ lt[1].shape[1] = 1
               /\ lt[n].shape[Len(lt[n].shape)] = 1
               /\ \A k \in 1..n :
                     SubSeq(lt[k].shape, 2, Len(lt[k].shape) - 1) = LdOf(last.ldim)
               /\ \A k \in 1..n : Len(lt[k].data) = Prod(lt[k].shape)

C1_Witness ==
    /\ last.fn = "random_mpa"
    /\ last.sites = 3
    /\ last.ldim = LdimTuple(<<1, 2>>)
    /\ last.bdim = 2
    /\ last.err = ""
    /\ Len(last.val.ltens) = 3

\* C2: for sites <= 1, _generate (so random_mpa and zero) fails with an
\* assertion error before the fill function is invoked: no tensor is
\* allocated, no source is drawn from and the MPArray constructor is not
\* called.
C2_AssertBeforeFill ==
    (ViaGenerate /\ last.sites <= 1) =>
        /\ last.err = "AssertionError"
        /\ last.calls = <<>>
        /\ last.asked = <<>>
        /\ last.log = <<>>
        /\ last.ctor = <<>>
        /\ src = last.pre

C2_Witness ==
    /\ last.fn = "random_mpa"
    /\ last.sites = 1
    /\ last.bdim = 2
    /\ last.ldim = LdimScalar(2)
    /\ last.err = "AssertionError"

\* C3: for sites >= 2, zero(sites, ldim, bdim) gives local tensors whose
\* entries are all zero and whose shapes are, site by site, those of
\* random_mpa(sites, ldim, bdim): the bond dimension stays bdim.
C3_ZeroShapes ==
    (last.fn = "zero" /\ GoodMpaArgs) =>
        /\ last.err = ""
        /\ LET z == last.val.ltens
               r == random_mpa(last.sites, last.ldim, last.bdim, "r1", World)
           IN  /\ r.err = ""
               /\ Len(z) = Len(r.val.ltens)
               /\ \A k \in 1..Len(z) :
                     /\ z[k].shape = r.val.ltens[k].shape
                     /\ \A i \in 1..Len(z[k].data) : z[k].data[i] = <<0, 0>>
                     /\ Len(z[k].data) = Len(r.val.ltens[k].data)
               /\ \A k \in 1..(Len(z) - 1) :
                     z[k].shape[Len(z[k].shape)] = last.bdim

C3_Witness ==
    /\ last.fn = "zero"
    /\ last.sites = 3
    /\ last.bdim = 2
    /\ last.ldim = LdimScalar(2)
    /\ last.err = ""
    /\ Len(last.val.ltens) = 3
    /\ last.val.ltens[2].shape = <<2, 2, 2>>

\* the k-th of n complex entries drawn by one _zrandn call that starts when
\* the source has handed out `off` samples since state s
DrawnEntry(s, off, n, k) ==
    <<Sample(StepN(s, off + k - 1)), Sample(StepN(s, off + n + k - 1))>>

\* C8: random_op(sites, ldim) returns the output of one _zrandn call of shape
\* (ldim, ldim)*sites, not normalized: 2*sites legs, each of size ldim.
C8_RandomOpShape ==
    (last.fn = "random_op" /\ last.ldim.n >= 0) =>
        /\ last.err = ""
        /\ last.val.shape = [i \in 1..(2 * last.sites) |-> last.ldim.n]
        /\ last.asked = <<last.val.shape>>
        /\ Len(last.log) = 2
        /\ last.val.div = <<1, 0>>
        /\ ~last.val.root
        /\ LET n == Pow(last.ldim.n, 2 * last.sites)
               s == last.pre[source_of(last.randstate)]
           IN  /\ Len(last.val.data) = n
               /\ \A k \in 1..n : last.val.data[k] = DrawnEntry(s, 0, n, k)

C8_Witness ==
    /\ last.fn = "random_op"
    /\ last.sites = 3
    /\ last.ldim.n = 2
    /\ last.err = ""
    /\ last.val.shape = <<2, 2, 2, 2, 2, 2>>

\* the number of entries of local tensor k of n
TensorSize(l, b, n, k) == Prod(ExpShape(l, b, n, k))

\* the samples drawn before local tensor k of n is filled
RECURSIVE DrawnBefore(_, _, _, _)
DrawnBefore(l, b, n, k) ==
    IF k <= 1 THEN 0
    ELSE DrawnBefore(l, b, n, k - 1) + 2 * TensorSize(l, b, n, k - 1)

\* C10: for sites >= 2, random_mpa(sites, ldim, bdim, randstate=r) draws from
\* r exactly 2*sites times, site by site from left to right, the real part of
\* a site before its imaginary part; the result and the final state of r are
\* determined by the state r starts in; zero and eye draw from no source.
C10_DrawOrder ==
    /\ (last.fn = "random_mpa" /\ last.randstate = "r1" /\ GoodMpaArgs) =>
          LET n == last.sites
              l == last.ldim
              b == last.bdim
              s == last.pre["r1"]
          IN  /\ last.err = ""
              /\ last.log = [i \in 1..(2 * n) |->
                               [src |-> "r1", shape |-> ExpShape(l, b, n, (i + 1) \div 2)]]
              /\ \A k \in 1..n :
                    \A i \in 1..TensorSize(l, b, n, k) :
                       last.val.ltens[k].data[i] =
                          DrawnEntry(s, DrawnBefore(l, b, n, k), TensorSize(l, b, n, k), i)
              /\ src["r1"] = StepN(s, DrawnBefore(l, b, n, n + 1))
              /\ src["np.random"] = last.pre["np.random"]
    /\ (last.fn \in {"zero", "eye"}) => (last.log = <<>> /\ src = last.pre)

C10_Witness ==
    /\ last.fn = "random_mpa"
    /\ last.randstate = "r1"
    /\ last.sites = 3
    /\ last.bdim = 2
    /\ last.ldim = LdimScalar(2)
    /\ Len(last.log) = 6
    /\ src["r1"] # last.pre["r1"]

Tol == 1000000

\* |p/q - 1| < 1/Tol for integers p and q > 0
WithinTol(p, q) ==
    LET d == IF p >= q THEN p - q ELSE q - p
    IN  q > 0 /\ d <= q \div Tol /\ d * Tol < q

\* the squared modulus of the scalar an array is divided by
DivisorSq(a) ==
    IF a.root THEN a.div[1] ELSE a.div[1] * a.div[1] + a.div[2] * a.div[2]

\* the sum of the squared moduli of the numerators
NumSq(a) == SumC([k \in 1..Len(a.data) |-> CMul(CConj(a.data[k]), a.data[k])])[1]

\* C5: for sites >= 1 and ldim >= 1, random_vec(sites, ldim) has shape
\* (ldim,)*sites and squared Euclidean norm within 1e-6 of 1.
C5_RandomVecNorm ==
    (last.fn = "random_vec" /\ last.sites >= 1 /\ last.ldim.n >= 1) =>
        /\ last.err = ""
        /\ last.val.shape = [i \in 1..last.sites |-> last.ldim.n]
        /\ Len(last.val.data) = Pow(last.ldim.n, last.sites)
        /\ (last.val.root => (last.val.div[2] = 0 /\ last.val.div[1] > 0))
        /\ WithinTol(NumSq(last.val), DivisorSq(last.val))

C5_Witness ==
    /\ last.fn = "random_vec"
    /\ last.sites = 3
    /\ last.ldim.n = 2
    /\ last.err = ""
    /\ last.val.shape = <<2, 2, 2>>
    /\ last.val.div[1] > 1

\* the i-th smallest element of a set of integers
Nth(S, i) == CHOOSE x \in S : Cardinality({y \in S : y < x}) = i - 1

RemoveAt(s, j) == SubSeq(s, 1, j - 1) \o SubSeq(s, j + 1, Len(s))

\* the determinant of the submatrix of A on the given rows and columns
RECURSIVE Det(_, _, _)
Det(A, rows, cols) ==
    IF rows = <<>> THEN <<1, 0>>
    ELSE SumC([j \in 1..Len(cols) |->
                 CMul(CMul(IF j % 2 = 1 THEN <<1, 0>> ELSE <<-1, 0>>,
                           At(A, rows[1], cols[j])),
                      Det(A, Tail(rows), RemoveAt(cols, j)))])

\* a Hermitian matrix is positive semidefinite iff all its principal minors
\* are nonnegative
IsHermitian(A) ==
    \A i \in 1..A.shape[1], j \in 1..A.shape[2] : At(A, i, j) = CConj(At(A, j, i))

IsPSD(A) ==
    /\ IsHermitian(A)
    /\ \A S \in SUBSET (1..A.shape[1]) :
          LET idx == [i \in 1..Cardinality(S) |-> Nth(S, i)]
              m == Det(A, idx, idx)
          IN  m[2] = 0 /\ m[1] >= 0

\* C6: random_state(sites, ldim) has 2*sites legs of size ldim; reshaped to
\* (ldim**sites, ldim**sites) its eigenvalues are >= -1e-6 and its trace is
\* within 1e-6 of 1; it is conj(M^T).M divided by its trace for one drawn
\* square matrix M.
C6_RandomStatePSD ==
    (last.fn = "random_state" /\ last.sites >= 1 /\ last.ldim.n >= 1) =>
        LET n == Pow(last.ldim.n, last.sites)
            s == last.pre[source_of(last.randstate)]
            M == MkArray(<<n, n>>, [k \in 1..(n * n) |-> DrawnEntry(s, 0, n * n, k)])
            A == np_reshape(last.val, <<n, n>>).val
        IN  /\ last.err = ""
            /\ last.val.shape = [i \in 1..(2 * last.sites) |-> last.ldim.n]
            /\ last.asked = <<(<<n, n>>)>>
            /\ Len(last.log) = 2
            /\ \A i \in 1..n, j \in 1..n :
                  At(A, i, j) = SumC([k \in 1..n |-> CMul(CConj(At(M, k, i)), At(M, k, j))])
            /\ ~A.root
            /\ A.div[2] = 0
            /\ np_trace(A)[2] = 0
            /\ WithinTol(np_trace(A)[1], A.div[1])
            /\ IsPSD(A)

C6_Witness ==
    /\ last.fn = "random_state"
    /\ last.sites = 2
    /\ last.ldim.n = 2
    /\ last.err = ""
    /\ last.val.shape = <<2, 2, 2, 2>>
    /\ \E k \in 1..16 : last.val.data[k][2] # 0

NegativeDim(shape) == \E i \in 1..Len(shape) : shape[i] <= -1

NonPositiveDim(shape) == \E i \in 1..Len(shape) : shape[i] <= 0

BuiltOnZrandn == last.fn \in {"random_vec", "random_op", "random_state", "random_mpa"}

\* C9 as stated: _zrandn, and every factory built on it, fails with an error
\* whenever the requested shape contains a non-positive dimension.
C9_NonPositiveFails ==
    (BuiltOnZrandn /\ \E i \in 1..Len(last.asked) : NonPositiveDim(last.asked[i]))
        => last.err # ""

\* C9 as amended: _zrandn fails, with the ValueError of the array allocation,
\* exactly when the requested shape contains a negative dimension, and then
\* draws nothing; a shape with a dimension of zero and none negative is
\* served without error and gives an empty array; the module adds no check.
C9_NegativeFails ==
    BuiltOnZrandn =>
        LET n == Len(last.asked)
        IN  /\ (\E i \in 1..n : NegativeDim(last.asked[i])) =>
                  /\ NegativeDim(last.asked[n])
                  /\ last.err = "ValueError"
                  /\ Len(last.log) = 2 * (n - 1)
            /\ (\A i \in 1..n : ~NegativeDim(last.asked[i])) =>
                  /\ Len(last.log) = 2 * n
                  /\ \A i \in 1..n :
                        /\ last.log[2 * i - 1].shape = last.asked[i]
                        /\ last.log[2 * i].shape = last.asked[i]
                  /\ (last.fn \in {"random_vec", "random_op"}) =>
                        /\ last.err = ""
                        /\ last.val.shape = last.asked[1]
                        /\ Len(last.val.data) = Prod(last.asked[1])
                  /\ (last.fn = "random_mpa") => last.err \in {"", "AssertionError"}

C9_Witness ==
    /\ last.fn = "random_vec"
    /\ last.sites = 2
    /\ last.ldim.n = 0
    /\ last.asked = <<(<<0, 0>>)>>
    /\ last.err = ""
    /\ last.val.data = <<>>

\* C4: for sites >= 1 and a scalar d >= 1, eye(sites, d) passes `sites` copies
\* of the d x d identity matrix to from_kron; the MPA has all bond dimensions 1
\* and maps every basis state to itself.
C4_EyeIdentity ==
    (last.fn = "eye" /\ last.sites >= 1 /\ last.ldim.n >= 1) =>
        LET n == last.sites
            d == last.ldim.n
        IN  /\ last.err = ""
            /\ Len(last.ctor) = 1
            /\ last.ctor[1].via = "from_kron"
            /\ Len(last.ctor[1].arg) = n
            /\ \A k \in 1..n :
                  /\ last.ctor[1].arg[k].shape = <<d, d>>
                  /\ \A a \in 1..d, b \in 1..d :
                        At(last.ctor[1].arg[k], a, b) = IF a = b THEN <<1, 0>> ELSE <<0, 0>>
            /\ Len(last.val.ltens) = n
            /\ \A k \in 1..n : last.val.ltens[k].shape = <<1, d, d, 1>>
            /\ \A b \in [1..n -> 1..d] :
                  apply_to_basis(last.val, b) =
                     [j \in [1..n -> 1..d] |-> IF j = b THEN <<1, 0>> ELSE <<0, 0>>]

C4_Witness ==
    /\ last.fn = "eye"
    /\ last.sites = 3
    /\ last.ldim.n = 2
    /\ last.err = ""
    /\ Len(last.val.ltens) = 3
    /\ last.val.ltens[1].shape = <<1, 2, 2, 1>>

Disjoint == source_of(thr.c["A"].randstate) # source_of(thr.c["B"].randstate)

SameAsAlone(c) ==
    LET me == thr.c[c]
        id == source_of(me.randstate)
        al == Alone(me.job, me.randstate, thr.src0)
    IN  /\ al.err = ""
        /\ me.out = al.val
        /\ src[id] = al.w.src[id]

\* C7: two callers that run random_vec / random_op / random_state /
\* random_mpa at the same time, each on a source of its own, get under every
\* interleaving of their draws the output they get alone, and leave their
\* source in the state it has after a run alone; a call with an injected
\* source never draws from the process-wide default source.
C7_OwnSources ==
    /\ \A c \in Callers : (Disjoint /\ thr.c[c].done) => SameAsAlone(c)
    /\ (\A c \in Callers : thr.c[c].randstate # "None") =>
          src["np.random"] = thr.src0["np.random"]

C7_Witness ==
    /\ Disjoint
    /\ thr.c["A"].randstate = "r1"
    /\ thr.c["B"].randstate = "r2"
    /\ thr.c["A"].job.fn = "random_mpa"
    /\ thr.c["B"].job.fn = "random_vec"
    /\ thr.mixed
    /\ thr.c["A"].done
    /\ thr.c["B"].done
    /\ SameAsAlone("A")

\* with one source for both callers there are interleavings in which a
\* caller's output is not the output it gets alone: TLC reaches this state
C7_SharedDiffers ==
    /\ ~Disjoint
    /\ thr.c["A"].done
    /\ thr.c["A"].out # Alone(thr.c["A"].job, thr.c["A"].randstate, thr.src0).val

====
